---- MODULE Spec2Model ----
(***************************************************************************)
(* Model of src/http/get-quotes/index.ts: the level-break scanner handler. *)
(*                                                                         *)
(* JavaScript values.  A string is a sequence of one-character strings, so *)
(* that String.prototype.split can be computed.  A value that may be       *)
(* undefined is wrapped: Undefined, or Str(s).  An object is a record (or  *)
(* function) whose DOMAIN is the set of its own properties; reading a      *)
(* property that is not there gives undefined.  Prices are numbers and are *)
(* only ever compared with <= and >=; they are modelled by integers.       *)
(***************************************************************************)
EXTENDS Integers, Sequences, FiniteSets, TLC

VARIABLES
    CRON_TOKEN,   \* the secret read from the environment at load (line 3)
    request,      \* the Request handed to handler
    pc,           \* handler: "start", "awaiting", "returned", "failed"
    response,     \* the value handler returned (NoResponse before it returns)
    stdout,       \* what console.log has printed
    calls,        \* the outbound HTTP calls issued, in order
    fetches,      \* state of each outbound fetch promise
    tasks,        \* state of each per-symbol async callback promise
    results,      \* handler's local `results` (line 109), once computed
    parsed,       \* determineLevelBreaks harness: its argument
    brokenLevels  \* determineLevelBreaks harness: its return value

vars == <<CRON_TOKEN, request, pc, response, stdout, calls, fetches, tasks,
          results, parsed, brokenLevels>>

---------------------------------------------------------------------------
(* Bounds *)

MaxHeaderLen == 4
MaxSecretLen == 1
MaxSymbols == 3
MaxPrice == 3
MaxLevels == 2

---------------------------------------------------------------------------
(* JavaScript values *)

Undefined == [type |-> "undefined"]
Str(s) == [type |-> "string", value |-> s]

\* !v for a value that is undefined or a string: undefined and '' are falsy.
Falsy(v) == v = Undefined \/ v = Str(<<>>)

\* obj[key]
Prop(obj, key) == IF key \in DOMAIN obj THEN obj[key] ELSE Undefined

SeqsUpTo(S, n) == UNION {[1..k -> S] : k \in 0..n}

Chars == {" ", "\t", "a", "b"}

FirstIndex(s, ch) ==
    IF \E i \in 1..Len(s) : s[i] = ch
    THEN CHOOSE i \in 1..Len(s) : s[i] = ch /\ \A j \in 1..(i - 1) : s[j] # ch
    ELSE 0

\* String.prototype.split(sep) for a one-character separator: the string is
\* cut at every occurrence of sep; '' gives [''].
RECURSIVE split(_, _)
split(s, sep) ==
    LET i == FirstIndex(s, sep)
    IN  IF i = 0
        THEN <<s>>
        ELSE <<SubSeq(s, 1, i - 1)>> \o split(SubSeq(s, i + 1, Len(s)), sep)

---------------------------------------------------------------------------
(* validateAuthorization *)

validateAuthorizationFirstPart(headers) ==
    LET h == Prop(headers, "authorization")
        text == IF Falsy(h) THEN <<>> ELSE h.value
        parts == split(text, " ")
        token == Str(parts[1])
    IN  token = CRON_TOKEN

validateAuthorization(headers) ==
    LET h == Prop(headers, "authorization")
        text == IF Falsy(h) THEN <<>> ELSE h.value          \* (h || '')
        parts == split(text, " ")
        token == IF Len(parts) >= 2 THEN Str(parts[2]) ELSE Undefined  \* [1]
    IN  token = CRON_TOKEN

---------------------------------------------------------------------------
(* Responses *)

NoResponse == [statusCode |-> 0]

TextResponse(code, text) ==
    [statusCode |-> code,
     headers |-> [k \in {"content-type"} |-> "text/plain; charset=utf8"],
     body |-> text]

JsonResponse(text) ==
    [statusCode |-> 200,
     headers |-> [k \in {"content-type"} |-> "application/json; charset=utf8"],
     body |-> text]

Pass == [statusCode |-> -1]

\* Lines 56-96: the four guards, in source order.  Pass when none returns.
preconditionsSymbolLast(req) ==
    IF Falsy(CRON_TOKEN) THEN TextResponse(500, "config not setup")
    ELSE IF ~validateAuthorization(req.headers)
    THEN TextResponse(401, "unauthorized")
    ELSE IF Falsy(Prop(req.queryStringParameters, "resolution"))
    THEN TextResponse(412, "missing resolution")
    ELSE IF Falsy(Prop(req.queryStringParameters, "symbol"))
    THEN TextResponse(412, "missing symbol")
    ELSE Pass

preconditions(req) ==
    IF Falsy(CRON_TOKEN) THEN TextResponse(500, "config not setup")
    ELSE IF ~validateAuthorization(req.headers)
    THEN TextResponse(401, "unauthorized")
    ELSE IF Falsy(Prop(req.queryStringParameters, "symbol"))
    THEN TextResponse(412, "missing symbol")
    ELSE IF Falsy(Prop(req.queryStringParameters, "resolution"))
    THEN TextResponse(412, "missing resolution")
    ELSE Pass

---------------------------------------------------------------------------
(* determineLevelBreaks *)

\* quotes[field] <= level and quotes[field] >= level.  A comparison with
\* undefined (the field is not in the upstream body) is false.
Le(quotes, field, level) == field \in DOMAIN quotes /\ quotes[field] <= level
Ge(quotes, field, level) == field \in DOMAIN quotes /\ quotes[field] >= level

levelBreakStrictOpen(quotes, level) ==
    LET brokeSupport ==
            Le(quotes, "o", level) /\ quotes.o # level /\ Ge(quotes, "h", level)
        brokeResistance == Ge(quotes, "o", level) /\ Le(quotes, "l", level)
    IN  IF brokeSupport
        THEN [broke |-> TRUE, resistance |-> level,
              closedBroken |-> Ge(quotes, "c", level)]
        ELSE IF brokeResistance
        THEN [broke |-> TRUE, support |-> level,
              closedBroken |-> Le(quotes, "c", level)]
        ELSE [broke |-> FALSE]

levelBreakLowIgnored(quotes, level) ==
    LET brokeSupport == Le(quotes, "o", level) /\ Ge(quotes, "h", level)
        brokeResistance == Ge(quotes, "o", level)
    IN  IF brokeSupport
        THEN [broke |-> TRUE, resistance |-> level,
              closedBroken |-> Ge(quotes, "c", level)]
        ELSE IF brokeResistance
        THEN [broke |-> TRUE, support |-> level,
              closedBroken |-> Le(quotes, "c", level)]
        ELSE [broke |-> FALSE]

levelBreakClosedSwapped(quotes, level) ==
    LET brokeSupport == Le(quotes, "o", level) /\ Ge(quotes, "h", level)
        brokeResistance == Ge(quotes, "o", level) /\ Le(quotes, "l", level)
    IN  IF brokeSupport
        THEN [broke |-> TRUE, resistance |-> level,
              closedBroken |-> Le(quotes, "c", level)]
        ELSE IF brokeResistance
        THEN [broke |-> TRUE, support |-> level,
              closedBroken |-> Ge(quotes, "c", level)]
        ELSE [broke |-> FALSE]

levelBreakResistanceFirst(quotes, level) ==
    LET brokeSupport == Le(quotes, "o", level) /\ Ge(quotes, "h", level)
        brokeResistance == Ge(quotes, "o", level) /\ Le(quotes, "l", level)
    IN  IF brokeResistance
        THEN [broke |-> TRUE, support |-> level,
              closedBroken |-> Le(quotes, "c", level)]
        ELSE IF brokeSupport
        THEN [broke |-> TRUE, resistance |-> level,
              closedBroken |-> Ge(quotes, "c", level)]
        ELSE [broke |-> FALSE]

\* Lines 142-165: the callback mapped over the levels.
levelBreak(quotes, level) ==
    LET brokeSupport == Le(quotes, "o", level) /\ Ge(quotes, "h", level)
        brokeResistance == Ge(quotes, "o", level) /\ Le(quotes, "l", level)
    IN  IF brokeSupport
        THEN [broke |-> TRUE, resistance |-> level,
              closedBroken |-> Ge(quotes, "c", level)]
        ELSE IF brokeResistance
        THEN [broke |-> TRUE, support |-> level,
              closedBroken |-> Le(quotes, "c", level)]
        ELSE [broke |-> FALSE]

\* results.supportResistance is undefined: .map on it throws a TypeError.
determineLevelBreaksThrows(res) == "supportResistance" \notin DOMAIN res

\* Lines 140-167: map, then filter on broke.
determineLevelBreaks(res) ==
    LET levels == res.supportResistance
        mapped == [i \in 1..Len(levels) |-> levelBreak(res.quotes, levels[i])]
    IN  SelectSeq(mapped, LAMBDA e : e.broke)

---------------------------------------------------------------------------
(* Outbound calls and their results *)

symbols == <<"AAPL", "AMD", "CRM", "MSFT", "NIO", "NVDA", "TSLA", "XPEV">>

\* The symbols the model scans: the first MaxSymbols of the list.
Scanned == SubSeq(symbols, 1, MaxSymbols)
ScannedSet == {Scanned[i] : i \in 1..Len(Scanned)}

FINNHUB_API_BASE == "https://finnhub.io/api/v1"

Kinds == {"quotes", "supportResistance"}

\* The request fetchQuotes sends (lines 176-186).
fetchQuotes(symbol, resolution) ==
    [url |-> FINNHUB_API_BASE \o "/quote",
     query |-> [resolution |-> resolution, symbol |-> symbol]]

\* The request fetchSupportResistance sends (lines 201-211).
fetchSupportResistance(symbol, resolution) ==
    [url |-> FINNHUB_API_BASE \o "/scan/support-resistance",
     query |-> [resolution |-> resolution, symbol |-> symbol]]

RECURSIVE Flatten(_)
Flatten(ss) == IF ss = <<>> THEN <<>> ELSE Head(ss) \o Flatten(Tail(ss))

scanCallsRequestParams(req) ==
    Flatten([i \in 1..Len(Scanned) |->
        <<fetchQuotes(Scanned[i], req.queryStringParameters.resolution.value),
          fetchSupportResistance(Scanned[i],
                                 req.queryStringParameters.resolution.value)>>])

\* Lines 110-115: every callback runs to its first await when map calls it,
\* so all the fetches are issued, in this order, before handler suspends.
scanCalls(req) ==
    Flatten([i \in 1..Len(Scanned) |->
        <<fetchQuotes(Scanned[i], <<"D">>),
          fetchSupportResistance(Scanned[i], <<"D">>)>>])

\* Lines 224-234.  data.levels may be undefined: the property then holds
\* undefined, which the record shows by not having the field.
parseResults(res) ==
    LET quotes == SelectSeq(res, LAMBDA r : r.result = "quotes")[1]
        supportResistance ==
            SelectSeq(res, LAMBDA r : r.result = "supportResistance")[1]
    IN  IF "levels" \in DOMAIN supportResistance.data
        THEN [quotes |-> quotes.data,
              supportResistance |-> supportResistance.data.levels]
        ELSE [quotes |-> quotes.data]

---------------------------------------------------------------------------
(* JSON.stringify of the scan results (line 130) *)

RECURSIVE Join(_)
Join(ss) ==
    IF ss = <<>> THEN ""
    ELSE IF Len(ss) = 1 THEN ss[1]
    ELSE ss[1] \o "," \o Join(Tail(ss))

JsonBool(b) == IF b THEN "true" ELSE "false"

JsonLevelBreak(e) ==
    "{\"broke\":" \o JsonBool(e.broke)
    \o (IF "resistance" \in DOMAIN e
        THEN ",\"resistance\":" \o ToString(e.resistance) ELSE "")
    \o (IF "support" \in DOMAIN e
        THEN ",\"support\":" \o ToString(e.support) ELSE "")
    \o (IF "closedBroken" \in DOMAIN e
        THEN ",\"closedBroken\":" \o JsonBool(e.closedBroken) ELSE "")
    \o "}"

JsonScanResult(r) ==
    "{\"symbol\":\"" \o r.symbol \o "\",\"brokenLevels\":["
    \o Join([i \in 1..Len(r.brokenLevels) |-> JsonLevelBreak(r.brokenLevels[i])])
    \o "]}"

JSONstringify(rs) ==
    "[" \o Join([i \in 1..Len(rs) |-> JsonScanResult(rs[i])]) \o "]"

---------------------------------------------------------------------------
(* Promises *)

Idle == [st |-> "idle"]
Pending == [st |-> "pending"]
Rejected == [st |-> "rejected"]
Resolved(v) == [st |-> "resolved", value |-> v]

FetchKeys == ScannedSet \X Kinds

\* Lines 112-120: the callback's continuation once its inner Promise.all
\* has both results, in the order [quotes, supportResistance].
symbolTask(symbol, f) ==
    LET res == <<f[<<symbol, "quotes">>].value,
                 f[<<symbol, "supportResistance">>].value>>
        parsedResults == parseResults(res)
    IN  IF determineLevelBreaksThrows(parsedResults)
        THEN Rejected
        ELSE Resolved([symbol |-> symbol,
                       brokenLevels |-> determineLevelBreaks(parsedResults)])

\* The callback promise of one symbol after the fetches have become f: it
\* rejects with the first fetch that rejects, and runs its continuation when
\* both fetches have resolved.  A settled promise does not change.
taskAfter(symbol, t, f) ==
    IF t[symbol].st # "pending" THEN t[symbol]
    ELSE IF \E k \in Kinds : f[<<symbol, k>>].st = "rejected" THEN Rejected
    ELSE IF \A k \in Kinds : f[<<symbol, k>>].st = "resolved"
    THEN symbolTask(symbol, f)
    ELSE Pending

joinSettled(t) ==
    IF \A s \in ScannedSet : t[s].st # "pending" THEN "resolved" ELSE "pending"

\* Line 110: the outer Promise.all rejects as soon as one callback promise
\* has rejected, and resolves when all have resolved.
join(t) ==
    IF \E s \in ScannedSet : t[s].st = "rejected" THEN "rejected"
    ELSE IF \A s \in ScannedSet : t[s].st = "resolved" THEN "resolved"
    ELSE "pending"

\* The values the outer Promise.all resolves with, in the order of symbols.
joined(t) ==
    LET all == [i \in 1..Len(Scanned) |-> t[Scanned[i]]]
        done == SelectSeq(all, LAMBDA p : p.st = "resolved")
    IN  [i \in 1..Len(done) |-> done[i].value]

filterResultsKeepAll(all) == all

\* Line 123: .filter(({ brokenLevels }) => brokenLevels.length)
filterResults(all) == SelectSeq(all, LAMBDA r : Len(r.brokenLevels) # 0)

---------------------------------------------------------------------------
(* The handler *)

handlerReturnEarlyAfterFetch(r) ==
    /\ pc' = "returned"
    /\ response' = r
    /\ calls' = scanCalls(request)
    /\ fetches' = [k \in FetchKeys |-> Pending]
    /\ UNCHANGED <<tasks, results>>

\* Lines 56-96: one of the guards returned r.
handlerReturnEarly(r) ==
    /\ pc' = "returned"
    /\ response' = r
    /\ UNCHANGED <<calls, fetches, tasks, results>>

\* Lines 98-122, to the first suspension: the fetches are issued.
handlerStartScan ==
    /\ pc' = "awaiting"
    /\ calls' = scanCalls(request)
    /\ fetches' = [k \in FetchKeys |-> Pending]
    /\ tasks' = [s \in ScannedSet |-> Pending]
    /\ UNCHANGED <<response, results>>

\* Lines 53-123: handler from its call to its first return or suspension.
handler ==
    /\ pc = "start"
    /\ stdout' = Append(stdout, request)
    /\ LET r == preconditions(request)
       IN  \/ r # Pass /\ handlerReturnEarly(r)
           \/ r = Pass /\ handlerStartScan
    /\ UNCHANGED <<CRON_TOKEN, request, parsed, brokenLevels>>

\* Lines 109-131: what the settling of the callback promises t does to the
\* suspended handler.
handlerResume(t) ==
    IF pc # "awaiting" \/ join(t) = "pending"
    THEN UNCHANGED <<pc, response, results>>
    ELSE IF join(t) = "rejected"
    THEN pc' = "failed" /\ UNCHANGED <<response, results>>
    ELSE /\ results' = filterResults(joined(t))
         /\ response' = JsonResponse(JSONstringify(results'))
         /\ pc' = "returned"

\* The upstream bodies the scan is run against.
QuoteBodies == {[o |-> 2, h |-> 3, l |-> 1, c |-> 3], [error |-> "limit"]}
LevelBodies == {[levels |-> <<2, 4>>], [levels |-> <<4>>], [error |-> "limit"]}
Bodies(kind) == IF kind = "quotes" THEN QuoteBodies ELSE LevelBodies

\* Lines 182-191 and 207-216: fetch and response.json() succeed with body.
\* The promise reactions this triggers run before any other completion.
fetchResolve(symbol, kind, body) ==
    /\ fetches[<<symbol, kind>>].st = "pending"
    /\ fetches' = [fetches EXCEPT
                     ![<<symbol, kind>>] = Resolved([data |-> body, result |-> kind])]
    /\ tasks' = [s \in ScannedSet |-> taskAfter(s, tasks, fetches')]
    /\ handlerResume(tasks')
    /\ UNCHANGED <<CRON_TOKEN, request, stdout, calls, parsed, brokenLevels>>

\* fetch or response.json() rejects (network error, body that is not JSON).
fetchReject(symbol, kind) ==
    /\ fetches[<<symbol, kind>>].st = "pending"
    /\ fetches' = [fetches EXCEPT ![<<symbol, kind>>] = Rejected]
    /\ tasks' = [s \in ScannedSet |-> taskAfter(s, tasks, fetches')]
    /\ handlerResume(tasks')
    /\ UNCHANGED <<CRON_TOKEN, request, stdout, calls, parsed, brokenLevels>>

---------------------------------------------------------------------------
(* Specifications *)

NotComputed == [done |-> FALSE]
Computed(v) == [done |-> TRUE, value |-> v]

Headers(texts) == {[k \in {} |-> Undefined]}
                  \cup {[k \in {"authorization"} |-> Str(t)] : t \in texts}

Params(symbolValues, resolutionValues) ==
    {p \in UNION {[D -> {Str(v) : v \in symbolValues \cup resolutionValues}] :
                    D \in SUBSET {"symbol", "resolution"}} :
        /\ "symbol" \in DOMAIN p => p.symbol.value \in symbolValues
        /\ "resolution" \in DOMAIN p => p.resolution.value \in resolutionValues}

InitHandler(secrets, texts, symbolValues, resolutionValues) ==
    /\ CRON_TOKEN \in {Undefined} \cup {Str(t) : t \in secrets}
    /\ request \in [headers : Headers(texts), queryStringParameters : Params(symbolValues, resolutionValues)]
    /\ pc = "start"
    /\ response = NoResponse
    /\ stdout = <<>>
    /\ calls = <<>>
    /\ fetches = [k \in FetchKeys |-> Idle]
    /\ tasks = [s \in ScannedSet |-> Idle]
    /\ results = <<>>
    /\ parsed = [quotes |-> [error |-> "idle"]]
    /\ brokenLevels = NotComputed

\* One invocation of the handler, with the upstream calls completing in any
\* order and with any outcome.
Init ==
    InitHandler({<<>>, <<"a">>},
                {<<"B", " ", "a">>, <<"B", " ", "b">>},
                {<<>>, <<"a">>, <<"b">>},
                {<<>>, <<"a">>})

Next ==
    \/ handler
    \/ \E s \in ScannedSet, k \in Kinds : \E b \in Bodies(k) : fetchResolve(s, k, b)
    \/ \E s \in ScannedSet, k \in Kinds : fetchReject(s, k)

Spec == Init /\ [][Next]_vars

\* The synchronous part of handler, over every secret and every
\* authorization header up to the bounds.
InitAuth ==
    InitHandler(SeqsUpTo(Chars, MaxSecretLen),
                SeqsUpTo(Chars, MaxHeaderLen),
                {<<>>, <<"a">>},
                {<<>>, <<"a">>})

NextAuth == handler

SpecAuth == InitAuth /\ [][NextAuth]_vars

\* determineLevelBreaks applied to every quote and level sequence up to the
\* bounds.
Prices == 1..MaxPrice
Quotes == [o : Prices, h : Prices, l : Prices, c : Prices]

InitLevels ==
    /\ parsed \in [quotes : Quotes, supportResistance : SeqsUpTo(Prices, MaxLevels)]
    /\ brokenLevels = NotComputed
    /\ CRON_TOKEN = Undefined
    /\ request = [headers |-> [k \in {} |-> Undefined],
                  queryStringParameters |-> [k \in {} |-> Undefined]]
    /\ pc = "idle"
    /\ response = NoResponse
    /\ stdout = <<>>
    /\ calls = <<>>
    /\ fetches = [k \in FetchKeys |-> Idle]
    /\ tasks = [s \in ScannedSet |-> Idle]
    /\ results = <<>>

callDetermineLevelBreaks ==
    /\ brokenLevels = NotComputed
    /\ brokenLevels' = Computed(determineLevelBreaks(parsed))
    /\ UNCHANGED <<CRON_TOKEN, request, pc, response, stdout, calls, fetches,
                   tasks, results, parsed>>

NextLevels == callDetermineLevelBreaks

SpecLevels == InitLevels /\ [][NextLevels]_vars

---------------------------------------------------------------------------
(* Properties of the preconditions (SpecAuth) *)

Ran == pc \in {"awaiting", "returned", "failed"}
Query == request.queryStringParameters
SecretConfigured == ~Falsy(CRON_TOKEN)
TokenValid == validateAuthorization(request.headers)
\* A parameter is missing when the handler's test !param succeeds: the key is
\* absent or its value is the empty string.
SymbolMissing == Falsy(Prop(Query, "symbol"))
ResolutionMissing == Falsy(Prop(Query, "resolution"))
Answered(code, text) == response.statusCode = code /\ response.body = text
ScanStarted == calls # <<>>

\* C1: once the handler has run, the response is that of the first failing
\* check in the order secret, token, symbol, resolution; the scan has started
\* only if all four passed.
C1_FirstFailingCheck ==
    Ran =>
      /\ ~SecretConfigured => Answered(500, "config not setup")
      /\ SecretConfigured /\ ~TokenValid => Answered(401, "unauthorized")
      /\ SecretConfigured /\ TokenValid /\ SymbolMissing
            => Answered(412, "missing symbol")
      /\ SecretConfigured /\ TokenValid /\ ~SymbolMissing /\ ResolutionMissing
            => Answered(412, "missing resolution")
      /\ ScanStarted => /\ SecretConfigured /\ TokenValid
                        /\ ~SymbolMissing /\ ~ResolutionMissing
                        /\ pc = "awaiting"

\* Both parameters are missing and the answer is the one for symbol.
C1_Witness ==
    /\ Ran /\ SecretConfigured /\ TokenValid
    /\ DOMAIN Query = {}
    /\ Answered(412, "missing symbol")

HeaderText ==
    IF "authorization" \in DOMAIN request.headers
    THEN request.headers["authorization"].value
    ELSE <<>>

Whitespace == {" ", "\t"}

\* The parts of text separated by runs of whitespace.
RECURSIVE WhitespaceFields(_)
WhitespaceFields(text) ==
    IF text = <<>> THEN <<>>
    ELSE IF Head(text) \in Whitespace THEN WhitespaceFields(Tail(text))
    ELSE LET n == IF \E i \in 1..Len(text) : text[i] \in Whitespace
                  THEN (CHOOSE i \in 1..Len(text) :
                           /\ text[i] \in Whitespace
                           /\ \A j \in 1..(i - 1) : text[j] \notin Whitespace) - 1
                  ELSE Len(text)
         IN  <<SubSeq(text, 1, n)>> \o WhitespaceFields(SubSeq(text, n + 1, Len(text)))

\* The parts of text separated at every single whitespace character.
RECURSIVE WhitespaceSplit(_)
WhitespaceSplit(text) ==
    IF \E i \in 1..Len(text) : text[i] \in Whitespace
    THEN LET i == CHOOSE i \in 1..Len(text) :
                     /\ text[i] \in Whitespace
                     /\ \A j \in 1..(i - 1) : text[j] \notin Whitespace
         IN  <<SubSeq(text, 1, i - 1)>> \o WhitespaceSplit(SubSeq(text, i + 1, Len(text)))
    ELSE <<text>>

SecondIs(parts, secret) == Len(parts) >= 2 /\ Str(parts[2]) = secret

Proceeds == response.statusCode # 401

\* C2 as stated: with the secret configured, the request proceeds past the
\* authorization check iff the second whitespace-separated part of the header
\* equals the secret, whichever way whitespace separation is read (parts
\* between runs of whitespace, or parts between single whitespace
\* characters).
C2_WhitespaceToken ==
    Ran /\ SecretConfigured =>
      \/ Proceeds <=> SecondIs(WhitespaceFields(HeaderText), CRON_TOKEN)
      \/ Proceeds <=> SecondIs(WhitespaceSplit(HeaderText), CRON_TOKEN)

\* The header reads <first> SPACE <secret> and then ends or goes on with a
\* SPACE, where <first> holds no SPACE and <secret> holds none either.
SpaceTokenIs(text, secret) ==
    \E i \in 1..Len(text) :
       /\ text[i] = " "
       /\ \A j \in 1..(i - 1) : text[j] # " "
       /\ LET n == Len(secret.value)
          IN  /\ i + n <= Len(text)
              /\ SubSeq(text, i + 1, i + n) = secret.value
              /\ \A j \in 1..n : secret.value[j] # " "
              /\ i + n = Len(text) \/ text[i + n + 1] = " "

\* C2 amended: with the secret configured, the request proceeds past the
\* authorization check iff the header's second part, the header being cut at
\* every single SPACE character (and at no other whitespace), equals the
\* secret; a missing header is answered 401.
C2_SpaceToken ==
    Ran /\ SecretConfigured =>
      /\ Proceeds <=> SpaceTokenIs(HeaderText, CRON_TOKEN)
      /\ "authorization" \notin DOMAIN request.headers
            => Answered(401, "unauthorized")

\* A header whose second SPACE-separated part is the secret went on to the
\* parameter checks and passed them.
C2_Witness ==
    /\ pc = "awaiting"
    /\ CRON_TOKEN = Str(<<"a">>)
    /\ HeaderText = <<"b", " ", "a">>

---------------------------------------------------------------------------
(* Properties of determineLevelBreaks (SpecLevels) *)

Q == parsed.quotes
Levels == parsed.supportResistance
LevelSet == {Levels[i] : i \in 1..Len(Levels)}
Out == brokenLevels.value
Entries == {Out[k] : k \in 1..Len(Out)}

SupportCondition(L) == Q.o <= L /\ L <= Q.h
ResistanceCondition(L) == Q.o >= L /\ L >= Q.l

IsSupportBreak(e, L) ==
    /\ e.broke
    /\ "resistance" \in DOMAIN e /\ e.resistance = L
    /\ "support" \notin DOMAIN e

IsResistanceBreak(e, L) ==
    /\ e.broke
    /\ "support" \in DOMAIN e /\ e.support = L
    /\ "resistance" \notin DOMAIN e

\* C3: a support-break entry for level L is in the output iff o <= L <= h.
C3_SupportBreakIff ==
    brokenLevels.done =>
      \A L \in LevelSet :
         (\E e \in Entries : IsSupportBreak(e, L)) <=> SupportCondition(L)

C3_Witness ==
    /\ brokenLevels.done
    /\ \E L \in LevelSet : \E e \in Entries : IsSupportBreak(e, L)
    /\ \E L \in LevelSet : Q.o = L /\ L < Q.h

\* C4 as stated: a resistance-break entry for level L is in the output iff
\* o >= L >= l.
C4_ResistanceBreakIff ==
    brokenLevels.done =>
      \A L \in LevelSet :
         (\E e \in Entries : IsResistanceBreak(e, L)) <=> ResistanceCondition(L)

\* C4 amended: a resistance-break entry for level L is in the output iff
\* o >= L >= l and the support-break condition o <= L <= h does not hold.
C4_ResistanceBreakUnlessSupport ==
    brokenLevels.done =>
      \A L \in LevelSet :
         (\E e \in Entries : IsResistanceBreak(e, L))
            <=> (ResistanceCondition(L) /\ ~SupportCondition(L))

\* One level meets both conditions and gives no resistance-break entry,
\* another gives one.
C4_Witness ==
    /\ brokenLevels.done
    /\ \E L \in LevelSet :
          /\ ResistanceCondition(L) /\ SupportCondition(L)
          /\ ~\E e \in Entries : IsResistanceBreak(e, L)
    /\ \E L \in LevelSet : \E e \in Entries : IsResistanceBreak(e, L)

\* C5: closedBroken is c >= L in a support-break entry (resistance = L) and
\* c <= L in a resistance-break entry (support = L).
C5_ClosedBroken ==
    brokenLevels.done =>
      \A e \in Entries :
         /\ "closedBroken" \in DOMAIN e
         /\ "resistance" \in DOMAIN e => (e.closedBroken <=> Q.c >= e.resistance)
         /\ "support" \in DOMAIN e => (e.closedBroken <=> Q.c <= e.support)

\* A support break the close did not hold and a resistance break it did.
C5_Witness ==
    /\ brokenLevels.done
    /\ \E e \in Entries : "resistance" \in DOMAIN e /\ ~e.closedBroken
    /\ \E e \in Entries : "support" \in DOMAIN e /\ e.closedBroken

\* The positions of the levels that meet either condition, in order.
HitPositions ==
    SelectSeq([i \in 1..Len(Levels) |-> i],
              LAMBDA i : SupportCondition(Levels[i]) \/ ResistanceCondition(Levels[i]))

\* C9: every position of the level sequence gives at most one entry (the
\* output has one entry per position that meets a condition, in input
\* order), and a level meeting both conditions gives the support-break entry.
C9_OneEntrySupportFirst ==
    brokenLevels.done =>
      /\ Len(Out) = Len(HitPositions)
      /\ Len(Out) <= Len(Levels)
      /\ \A k \in 1..Len(Out) :
            LET L == Levels[HitPositions[k]]
            IN  /\ IsSupportBreak(Out[k], L) \/ IsResistanceBreak(Out[k], L)
                /\ SupportCondition(L) /\ ResistanceCondition(L)
                      => Out[k] = [broke |-> TRUE, resistance |-> L,
                                   closedBroken |-> (Q.c >= L)]

\* The degenerate quote o = h = l = L, with the level given twice.
C9_Witness ==
    /\ brokenLevels.done
    /\ Len(Levels) = 2 /\ Levels[1] = Levels[2]
    /\ Q.o = Levels[1] /\ Q.h = Levels[1] /\ Q.l = Levels[1]
    /\ Len(Out) = 2

---------------------------------------------------------------------------
(* Properties of the scan (Spec) *)

Returned200 == response.statusCode = 200
EarlyAnswer == response.statusCode \in {500, 401, 412}

FetchDone(symbol, kind) == fetches[<<symbol, kind>>].st = "resolved"
Body(symbol, kind) == fetches[<<symbol, kind>>].value.data

\* From the upstream bodies alone: some level of the symbol lies between the
\* open and the high, or between the low and the open.
HasBreak(symbol) ==
    LET q == Body(symbol, "quotes")
        b == Body(symbol, "supportResistance")
    IN  /\ {"o", "h", "l", "c"} \subseteq DOMAIN q
        /\ "levels" \in DOMAIN b
        /\ \E i \in 1..Len(b.levels) :
              \/ q.o <= b.levels[i] /\ b.levels[i] <= q.h
              \/ q.l <= b.levels[i] /\ b.levels[i] <= q.o

\* C6: in a 200 response every element is a symbol of the universe with a
\* non-empty brokenLevels, the elements are exactly the symbols that have a
\* break, the body is the JSON text of that array, and it is [] when no
\* symbol has a break.
C6_OnlyBrokenSymbols ==
    Returned200 =>
      /\ \A i \in 1..Len(results) :
            /\ \E j \in 1..Len(symbols) : results[i].symbol = symbols[j]
            /\ Len(results[i].brokenLevels) >= 1
            /\ \A k \in 1..Len(results[i].brokenLevels) :
                  results[i].brokenLevels[k].broke
      /\ {results[i].symbol : i \in 1..Len(results)}
            = {s \in ScannedSet : HasBreak(s)}
      /\ response.body = JSONstringify(results)
      /\ (\A s \in ScannedSet : ~HasBreak(s)) => response.body = "[]"

\* Every fetch succeeded, no symbol has a break, and the body is [].
C6_Witness ==
    /\ Returned200
    /\ \A s \in ScannedSet : FetchDone(s, "quotes") /\ ~HasBreak(s)
    /\ \E s \in ScannedSet : "levels" \in DOMAIN Body(s, "supportResistance")
                             /\ "o" \in DOMAIN Body(s, "quotes")
    /\ response.body = "[]"

TruthyValues == {<<"a">>, <<"b">>}

\* The requests that differ from the current one only in the values of
\* symbol and resolution.
OtherValues ==
    {[request EXCEPT !.queryStringParameters =
         [symbol |-> Str(v), resolution |-> Str(w)]] :
       v \in TruthyValues, w \in TruthyValues}

\* The calls of the fixed universe, each with resolution D.
FixedCalls ==
    Flatten([i \in 1..Len(Scanned) |->
        << [url |-> "https://finnhub.io/api/v1/quote",
            query |-> [resolution |-> <<"D">>, symbol |-> symbols[i]]],
           [url |-> "https://finnhub.io/api/v1/scan/support-resistance",
            query |-> [resolution |-> <<"D">>, symbol |-> symbols[i]]] >>])

\* What the upstream bodies give for one symbol, and for all of them.
SymbolResult(symbol) ==
    [symbol |-> symbol,
     brokenLevels |-> determineLevelBreaks(
         [quotes |-> Body(symbol, "quotes"),
          supportResistance |-> Body(symbol, "supportResistance").levels])]

UpstreamResults ==
    SelectSeq([i \in 1..Len(Scanned) |-> SymbolResult(Scanned[i])],
              LAMBDA r : r.brokenLevels # <<>>)

\* C8: in an invocation that passed the preconditions, the calls issued are
\* the fixed ones, they are the calls any request with other values of
\* symbol and resolution issues, every such request passes the preconditions
\* too, and a 200 response is a function of the upstream bodies only.
C8_ValuesUnused ==
    ScanStarted =>
      /\ calls = FixedCalls
      /\ \A other \in OtherValues :
            preconditions(other) = Pass /\ scanCalls(other) = calls
      /\ Returned200 => response = JsonResponse(JSONstringify(UpstreamResults))

\* A 200 response with a break in it, to a request whose symbol and
\* resolution are neither a scanned symbol nor D.
C8_Witness ==
    /\ Returned200
    /\ request.queryStringParameters =
          [symbol |-> Str(<<"b">>), resolution |-> Str(<<"a">>)]
    /\ response.body # "[]"

\* C10: an invocation answered 500, 401 or 412 has issued no call and has
\* no fetch in flight.
C10_NoCallBeforeChecks ==
    EarlyAnswer =>
      /\ calls = <<>>
      /\ \A k \in FetchKeys : fetches[k] = Idle

\* A request with the right token and no resolution: 412 and no call.
C10_Witness ==
    /\ Answered(412, "missing resolution")
    /\ TokenValid /\ SecretConfigured
    /\ calls = <<>>

====
